---- MODULE Spec2Model ----
(***************************************************************************)
(* A model of latlon_conv.py: the normaliser (prepare_string), the         *)
(* tokenizer, the recursive-descent coordinate parser (parse_coord,        *)
(* parse_minutes, parse_seconds, parse_float), the order/hemisphere        *)
(* resolver inside parse_coordinates, the formatter (dec_coord, str_coord, *)
(* signed_coord) and the batch generator process_simpl.                    *)
(*                                                                         *)
(* Representation.                                                         *)
(*   str    a sequence of one-character strings                            *)
(*   int    an Int                                                         *)
(*   float  a fixed-point Int counting units of 1/UNIT; every float the    *)
(*          bounded inputs produce is a multiple of that unit, so the      *)
(*          arithmetic of the model is exact where Python rounds to the    *)
(*          nearest double                                                 *)
(*   a raised exception is a record whose field exc names its class        *)
(***************************************************************************)
EXTENDS Integers, Sequences, FiniteSets, TLC

\* ------------------------------------------------------------------------
\* Characters and strings
\* ------------------------------------------------------------------------

DigitChars == <<"0", "1", "2", "3", "4", "5", "6", "7", "8", "9">>

IsDigit(c) == \E i \in 1..10 : DigitChars[i] = c

DigitVal(c) == (CHOOSE i \in 1..10 : DigitChars[i] = c) - 1

UpperChars ==
  <<"A", "B", "C", "D", "E", "F", "G", "H", "I", "J", "K", "L", "M",
    "N", "O", "P", "Q", "R", "S", "T", "U", "V", "W", "X", "Y", "Z">>

LowerChars ==
  <<"a", "b", "c", "d", "e", "f", "g", "h", "i", "j", "k", "l", "m",
    "n", "o", "p", "q", "r", "s", "t", "u", "v", "w", "x", "y", "z">>

IsUpper(c) == \E i \in 1..26 : UpperChars[i] = c

\* str.isalpha() of one character
isalpha(c) == \E i \in 1..26 : UpperChars[i] = c \/ LowerChars[i] = c

\* str.isspace() of one character
IsSpaceChar(c) == c \in {" ", "\t", "\n"}

CaseFoldChar(c) ==
  IF IsUpper(c) THEN LowerChars[CHOOSE i \in 1..26 : UpperChars[i] = c] ELSE c

\* str.casefold()
casefold(s) == [i \in 1..Len(s) |-> CaseFoldChar(s[i])]

\* c in s, for a character c
Contains(s, c) == \E i \in 1..Len(s) : s[i] = c

\* s[n:]
Drop(s, n) == SubSeq(s, n + 1, Len(s))

\* the concatenation of a sequence of strings
RECURSIVE Concat(_)
Concat(ss) == IF ss = <<>> THEN <<>> ELSE Head(ss) \o Concat(Tail(ss))

\* the digits of a natural number
RECURSIVE NatStr(_)
NatStr(n) ==
  IF n < 10 THEN <<DigitChars[n + 1]>>
  ELSE NatStr(n \div 10) \o <<DigitChars[(n % 10) + 1]>>

\* str(n) of an int
IntStr(n) == IF n < 0 THEN <<"-">> \o NatStr(-n) ELSE NatStr(n)

\* the value of a run of digits
RECURSIVE DigitsVal(_)
DigitsVal(ds) ==
  IF ds = <<>> THEN 0
  ELSE 10 * DigitsVal(SubSeq(ds, 1, Len(ds) - 1)) + DigitVal(ds[Len(ds)])

\* int(text) of a text matching -?\d+
IntOfText(t) ==
  IF Head(t) = "-" THEN 0 - DigitsVal(Tail(t)) ELSE DigitsVal(t)

RECURSIVE Pow10(_)
Pow10(k) == IF k = 0 THEN 1 ELSE 10 * Pow10(k - 1)

AllDigits(s) == \A i \in 1..Len(s) : IsDigit(s[i])

\* str.find(sub): the lowest 0-based index of sub in s, or -1
find(s, sub) ==
  LET hits == {i \in 1..(Len(s) - Len(sub) + 1) :
                 SubSeq(s, i, i + Len(sub) - 1) = sub}
  IN IF hits = {} THEN 0 - 1
     ELSE (CHOOSE i \in hits : \A j \in hits : i <= j) - 1

\* str.strip()
RECURSIVE LStrip(_)
LStrip(s) ==
  IF s # <<>> /\ IsSpaceChar(Head(s)) THEN LStrip(Tail(s)) ELSE s

RECURSIVE RStrip(_)
RStrip(s) ==
  IF s # <<>> /\ IsSpaceChar(s[Len(s)])
  THEN RStrip(SubSeq(s, 1, Len(s) - 1)) ELSE s

strip(s) == RStrip(LStrip(s))

\* str.isspace(): non-empty and only whitespace
isspace(s) == s # <<>> /\ \A i \in 1..Len(s) : IsSpaceChar(s[i])

\* str.partition('\t')
partition_tab(s) ==
  LET hits == {i \in 1..Len(s) : s[i] = "\t"}
  IN IF hits = {} THEN <<s, <<>>, <<>>>>
     ELSE LET i == CHOOSE k \in hits : \A j \in hits : k <= j
          IN <<SubSeq(s, 1, i - 1), <<"\t">>, Drop(s, i)>>

\* ------------------------------------------------------------------------
\* Floats
\* ------------------------------------------------------------------------

\* one degree (minute, second) is UNIT units of the fixed-point floats
UNIT == 3600000

\* float(n) of an int
float_of_int(n) == n * UNIT

\* the value 0.fp of a run of digits fp; exact up to five digits, which is
\* as many as the bounded inputs and the formatter produce
FracUnits(fp) ==
  IF Len(fp) <= 5 THEN DigitsVal(fp) * (UNIT \div Pow10(Len(fp)))
  ELSE (DigitsVal(fp) * (UNIT \div Pow10(5))) \div Pow10(Len(fp) - 5)

\* float(text) of the text str(int_part) + '.' + str(dec_part): Python
\* accepts [sign] digits '.' digits and rejects a sign after the point
float_of_text(t) ==
  LET neg  == t # <<>> /\ Head(t) = "-"
      body == IF neg THEN Tail(t) ELSE t
      dots == {i \in 1..Len(body) : body[i] = "."}
  IN IF Cardinality(dots) # 1 THEN [exc |-> "ValueError", msg |-> "float"]
     ELSE LET d  == CHOOSE i \in dots : TRUE
              ip == SubSeq(body, 1, d - 1)
              fp == Drop(body, d)
          IN IF ~(AllDigits(ip) /\ AllDigits(fp)) \/ (ip = <<>> /\ fp = <<>>)
             THEN [exc |-> "ValueError", msg |-> "float"]
             ELSE LET mag == DigitsVal(ip) * UNIT + FracUnits(fp)
                  IN [exc |-> "none", val |-> IF neg THEN 0 - mag ELSE mag]

\* ------------------------------------------------------------------------
\* prepare_string
\* ------------------------------------------------------------------------

DegreeSign == "°"

\* the class of double-quote glyphs of the seconds pattern; its curly
\* members (U+201C, U+201D, U+201F) are rewritten exactly like the straight
\* one and are left out of the alphabet
DoubleQuotes == {"\""}

\* the class of prime glyphs of the seconds and minutes patterns; its other
\* members (U+0060, U+2018, U+2019, U+201B) are rewritten exactly like the
\* acute accent and are left out of the alphabet
Primes == {"´"}

\* a literal word as a pattern: one singleton class per character
Lit(w) == [i \in 1..Len(w) |-> {w[i]}]

\* a pattern alternative matches at the head of s
MatchesAt(alt, s) ==
  /\ Len(alt) <= Len(s)
  /\ \A i \in 1..Len(alt) : s[i] \in alt[i]

\* re.sub(alt1|alt2|..., repl, s): leftmost match, first alternative that
\* matches at a position, non-overlapping
RECURSIVE re_sub(_, _, _)
re_sub(alts, repl, s) ==
  IF s = <<>> THEN <<>>
  ELSE LET ms == {k \in 1..Len(alts) : MatchesAt(alts[k], s)}
       IN IF ms = {} THEN <<Head(s)>> \o re_sub(alts, repl, Tail(s))
          ELSE LET k == CHOOSE m \in ms : \A j \in ms : m <= j
               IN repl \o re_sub(alts, repl, Drop(s, Len(alts[k])))

SecondsPattern ==
  << Lit(<<"s", "e", "c", "o", "n", "d", "s">>),
     Lit(<<"s", "e", "c">>),
     <<DoubleQuotes>>,
     <<Primes, Primes>>,
     <<Primes, {" "}, Primes>> >>

MinutesPattern ==
  << Lit(<<"m", "i", "n", "u", "t", "e", "s">>),
     Lit(<<"m", "i", "n">>),
     <<Primes>> >>

DegreesPattern ==
  << Lit(<<"d", "e", "g", "r", "e", "e", "s">>),
     Lit(<<"d", "e", "g">>),
     Lit(<<"o">>) >>

\* the substitutions of prepare_string, after its ambiguity check
Rewrite(string) ==
  LET s0 == casefold(string)
      s1 == re_sub(<<Lit(<<"n", "o", "r", "t", "h">>)>>, <<"n">>, s0)
      s2 == re_sub(<<Lit(<<"s", "o", "u", "t", "h">>)>>, <<"s">>, s1)
      s3 == re_sub(<<Lit(<<"w", "e", "s", "t">>)>>, <<"w">>, s2)
      s4 == re_sub(<<Lit(<<"e", "a", "s", "t">>)>>, <<"e">>, s3)
      s5 == re_sub(SecondsPattern, <<"'", "'">>, s4)
      s6 == re_sub(MinutesPattern, <<"'">>, s5)
  IN re_sub(DegreesPattern, <<DegreeSign>>, s6)

prepare_string(string) ==
  IF (Contains(string, "O") \/ Contains(string, "o"))
     /\ Contains(string, DegreeSign)
  THEN [exc |-> "ValueError", msg |-> "ambiguous O"]
  ELSE [exc |-> "none", val |-> Rewrite(string)]

\* ------------------------------------------------------------------------
\* The tokenizer: re.finditer(r'(-?\d+)([^\d-]*)', string)
\* ------------------------------------------------------------------------

\* the length of the longest prefix of s made of digits
RECURSIVE DigitRun(_)
DigitRun(s) ==
  IF s # <<>> /\ IsDigit(Head(s)) THEN 1 + DigitRun(Tail(s)) ELSE 0

\* the length of the longest prefix of s matching [^\d-]*
RECURSIVE MarkerRun(_)
MarkerRun(s) ==
  IF s # <<>> /\ ~IsDigit(Head(s)) /\ Head(s) # "-"
  THEN 1 + MarkerRun(Tail(s)) ELSE 0

RECURSIVE tokenize(_)
tokenize(s) ==
  IF s = <<>> THEN <<>>
  ELSE LET sign == IF Head(s) = "-" /\ Len(s) >= 2 /\ IsDigit(s[2])
                   THEN 1 ELSE 0
           nd   == DigitRun(Drop(s, sign))
       IN IF nd = 0 THEN tokenize(Tail(s))
          ELSE LET nm == MarkerRun(Drop(s, sign + nd))
               IN << << IntOfText(SubSeq(s, 1, sign + nd)),
                        SubSeq(s, sign + nd + 1, sign + nd + nm) >> >>
                  \o tokenize(Drop(s, sign + nd + nm))

\* ------------------------------------------------------------------------
\* Values: Minute and Coordinate are "a float, or a tuple"
\* ------------------------------------------------------------------------

\* a float value (isinstance(v, float) holds)
Float(u) == [type |-> "float", val |-> u]

\* an int value, where the code leaves a token's int unconverted
IntVal(n) == [type |-> "int", val |-> n]

\* the tuple (minutes, seconds) of a Minute
MinSec(m, sec) == [type |-> "tuple", minutes |-> m, seconds |-> sec]

\* the tuple (sign, degrees, minutes) of a Coordinate
Sexagesimal(pos, deg, mm) ==
  [type |-> "tuple", positive |-> pos, degrees |-> deg, minutes |-> mm]

\* a call that returned value v and the remaining tokens
Parsed(v, rest) == [exc |-> "none", val |-> v, rest |-> rest]

\* raise ValueError("parse error")
ParseError == [exc |-> "ValueError", msg |-> "parse error"]

\* first_sep[0] of an empty first_sep
IndexError == [exc |-> "IndexError", msg |-> "string index out of range"]

abs(n) == IF n < 0 THEN 0 - n ELSE n

\* ------------------------------------------------------------------------
\* The parser: tokens are pairs <<int, trailing marker>>
\* ------------------------------------------------------------------------

\* the return of parse_float: f is the outcome of float(...)
float_result(f, rest) ==
  IF f.exc = "none" THEN Parsed(Float(f.val), rest) ELSE f

parse_float(tokens) ==
  IF Len(tokens) < 2 THEN ParseError
  ELSE float_result(
         float_of_text(IntStr(tokens[1][1]) \o <<".">> \o IntStr(tokens[2][1])),
         Drop(tokens, 2))

parse_seconds(tokens) ==
  IF tokens = <<>> THEN ParseError
  ELSE IF Len(tokens) = 1
  THEN Parsed(Float(float_of_int(tokens[1][1])), Tail(tokens))
  ELSE LET first_sep == tokens[1][2]
       IN IF first_sep = <<>> THEN IndexError
          ELSE IF first_sep[1] \in {".", ","} THEN parse_float(tokens)
          ELSE IF SubSeq(first_sep, 1, IF Len(first_sep) < 2 THEN Len(first_sep) ELSE 2)
                  = <<"'", "'">>
          THEN Parsed(IntVal(tokens[1][1]), Tail(tokens))
          ELSE ParseError

\* lines 157-162: the try around parse_seconds, r its outcome; a ValueError
\* is caught, any other exception leaves parse_minutes
try_seconds(minutes, r, rest) ==
  IF r.exc = "none" THEN Parsed(MinSec(minutes, r.val), r.rest)
  ELSE IF r.exc = "ValueError" THEN Parsed(Float(float_of_int(minutes)), rest)
  ELSE r

\* parse_minutes as it would be without lines 147-148: a single token is a
\* parse error instead of a value
parse_minutes_no_base_case(tokens) ==
  IF tokens = <<>> THEN ParseError
  ELSE IF Len(tokens) = 1 THEN ParseError
  ELSE LET first_sep == tokens[1][2]
       IN IF first_sep = <<>> THEN IndexError
          ELSE IF first_sep[1] \in {".", ","} THEN parse_float(tokens)
          ELSE IF first_sep[1] = "'"
          THEN try_seconds(tokens[1][1], parse_seconds(Tail(tokens)), Tail(tokens))
          ELSE ParseError

parse_minutes(tokens) ==
  IF tokens = <<>> THEN ParseError
  ELSE IF Len(tokens) = 1
  THEN Parsed(Float(float_of_int(tokens[1][1])), Tail(tokens))
  ELSE LET first_sep == tokens[1][2]
       IN IF first_sep = <<>> THEN IndexError
          ELSE IF first_sep[1] \in {".", ","} THEN parse_float(tokens)
          ELSE IF first_sep[1] = "'"
          THEN try_seconds(tokens[1][1], parse_seconds(Tail(tokens)), Tail(tokens))
          ELSE ParseError

\* lines 114-119: the try around parse_minutes, r its outcome
try_minutes(degrees, r, rest) ==
  IF r.exc = "none"
  THEN Parsed(Sexagesimal(degrees >= 0, abs(degrees), r.val), r.rest)
  ELSE IF r.exc = "ValueError" THEN Parsed(Float(float_of_int(degrees)), rest)
  ELSE r

parse_coord(tokens) ==
  IF tokens = <<>> THEN ParseError
  ELSE IF Len(tokens) = 1
  THEN Parsed(Float(float_of_int(tokens[1][1])), Tail(tokens))
  ELSE LET first_sep == tokens[1][2]
       IN IF first_sep = <<>> THEN IndexError
          ELSE IF first_sep[1] \in {".", ","} THEN parse_float(tokens)
          ELSE IF first_sep[1] = DegreeSign
          THEN try_minutes(tokens[1][1], parse_minutes(Tail(tokens)), Tail(tokens))
          ELSE ParseError

hemisphere_sign(c, coord) ==
  IF c \in {"n", "e"} THEN coord
  ELSE IF coord.type = "float" THEN Float(0 - coord.val)
  ELSE Sexagesimal(~coord.positive, coord.degrees, coord.minutes)

\* the text ''.join(str(n)+sep for n, sep in tokens) of the message
RECURSIVE TokensStr(_)
TokensStr(tokens) ==
  IF tokens = <<>> THEN <<>>
  ELSE IntStr(tokens[1][1]) \o tokens[1][2] \o TokensStr(Tail(tokens))

cannot_parse_error(tokens) ==
  [exc |-> "ValueError", msg |-> "Cannot parse", text |-> TokensStr(tokens)]

\* [c for c in string if c.isalpha()]
letters_of(string) == SelectSeq(string, isalpha)

IsQuadrantLetter(c) == c \in {"n", "s", "e", "w"}

\* [c for c in letters if c in 'nsew']
quadrant_of(string) == SelectSeq(letters_of(string), IsQuadrantLetter)

\* the function swap of a two-letter quadrant: which of the two branches
\* binds it, or none of them
swap_of(quadrant) ==
  IF quadrant[1] \in {"n", "s"} /\ quadrant[2] \in {"w", "e"} THEN "keep"
  ELSE IF quadrant[1] \in {"w", "e"} /\ quadrant[2] \in {"n", "s"}
  THEN "exchange"
  ELSE "unbound"

\* a call of the closure orient on the pair p
orient(quadrant, lat_first, p) ==
  IF quadrant = <<>>
  THEN [exc |-> "none", val |-> IF lat_first THEN p ELSE <<p[2], p[1]>>]
  ELSE IF swap_of(quadrant) = "unbound"
  THEN [exc |-> "NameError", msg |-> "swap"]
  ELSE LET q == << hemisphere_sign(quadrant[1], p[1]),
                   hemisphere_sign(quadrant[2], p[2]) >>
       IN [exc |-> "none",
           val |-> IF swap_of(quadrant) = "keep" THEN q ELSE <<q[2], q[1]>>]

\* lines 254-262 without the call of orient: r0 is the first coordinate and
\* r1 the outcome of the second parse_coord
second_coord(r0, r1) ==
  IF r1.exc = "ValueError" THEN cannot_parse_error(r0.rest)
  ELSE IF r1.exc # "none" THEN r1
  ELSE IF r1.rest # <<>> THEN cannot_parse_error(r1.rest)
  ELSE [exc |-> "none", val |-> <<r0.val, r1.val>>]

\* lines 248-253 without the call of orient: r0 is the outcome of the first
\* parse_coord
first_coord(tokens, r0) ==
  IF r0.exc = "ValueError" THEN cannot_parse_error(tokens)
  ELSE IF r0.exc # "none" THEN r0
  ELSE IF r0.rest = <<>> /\ Len(tokens) = 2
  THEN [exc |-> "none",
        val |-> << Float(float_of_int(tokens[1][1])),
                   Float(float_of_int(tokens[2][1])) >>]
  ELSE second_coord(r0, parse_coord(r0.rest))

\* lines 248-262 without the calls of orient: the pair of coordinates of
\* the tokens
parse_pair(tokens) == first_coord(tokens, parse_coord(tokens))

\* lines 253 and 262: orient applied to the pair, when there is one
oriented(quadrant, lat_first, pair) ==
  IF pair.exc # "none" THEN pair ELSE orient(quadrant, lat_first, pair.val)

\* parse_coordinates after the string is standardized
parse_prepared(string, lat_first) ==
  IF Len(letters_of(string)) > Len(quadrant_of(string))
  THEN [exc |-> "ValueError", msg |-> "Letters cannot be recognized"]
  ELSE IF quadrant_of(string) # <<>> /\ Len(quadrant_of(string)) # 2
  THEN [exc |-> "ValueError", msg |-> "Cannot recognize the order"]
  ELSE oriented(quadrant_of(string), lat_first, parse_pair(tokenize(string)))

\* parse_coordinates from line 216 on: prepared is the outcome of
\* prepare_string
after_prepare(prepared, lat_first) ==
  IF prepared.exc # "none" THEN prepared
  ELSE parse_prepared(prepared.val, lat_first)

parse_coordinates(string, lat_first) ==
  after_prepare(prepare_string(string), lat_first)

\* ------------------------------------------------------------------------
\* The formatter
\* ------------------------------------------------------------------------

\* the float of an int or float value
AsFloat(v) == IF v.type = "int" THEN float_of_int(v.val) ELSE v.val

dec_minute(minute) ==
  IF minute.type = "float" THEN minute.val
  ELSE float_of_int(minute.minutes) + AsFloat(minute.seconds) \div 60

dec_coord(coord) ==
  IF coord.type = "float" THEN coord
  ELSE Float((IF coord.positive THEN 1 ELSE 0 - 1)
             * (float_of_int(coord.degrees) + dec_minute(coord.minutes) \div 60))

\* n written with at least k digits, zero-padded on the left
RECURSIVE ZeroPad(_, _)
ZeroPad(n, k) ==
  IF k = 0 THEN <<>>
  ELSE ZeroPad(n \div 10, k - 1) \o <<DigitChars[(n % 10) + 1]>>

\* format(u, '.<places>f'): the nearest multiple of 10^-places; no bounded
\* input lies halfway between two of them
FixedStr(u, places) ==
  LET scale == UNIT \div Pow10(places)
      k     == (abs(u) + scale \div 2) \div scale
  IN (IF u < 0 THEN <<"-">> ELSE <<>>)
     \o NatStr(k \div Pow10(places)) \o <<".">>
     \o ZeroPad(k % Pow10(places), places)

str_coord(coord, lat) ==
  LET hems == IF lat THEN <<"S", "N">> ELSE <<"W", "E">>
      hem(b) == hems[IF b THEN 2 ELSE 1]
  IN IF coord.type = "float"
     THEN FixedStr(abs(coord.val), 5) \o <<hem(coord.val >= 0)>>
     ELSE IF coord.minutes.type = "float"
     THEN IntStr(coord.degrees) \o <<DegreeSign>>
          \o FixedStr(coord.minutes.val, 3) \o <<"'">> \o <<hem(coord.positive)>>
     ELSE IntStr(coord.degrees) \o <<DegreeSign>>
          \o IntStr(coord.minutes.minutes) \o <<"'">>
          \o FixedStr(AsFloat(coord.minutes.seconds), 1) \o <<"'", "'">>
          \o <<hem(coord.positive)>>

signed_coord(coord) ==
  LET hem == coord[Len(coord)]
  IN IF hem \in {"S", "W"} THEN <<"-">> \o SubSeq(coord, 1, Len(coord) - 1)
     ELSE SubSeq(coord, 1, Len(coord) - 1)

\* ------------------------------------------------------------------------
\* Bounds and inputs
\* ------------------------------------------------------------------------

\* the longest input of the batch generator, in lines
MaxLines == 3

\* the longest raw string given to the normaliser, in pieces
MaxPieces == 4

\* the number of successive passes of the normaliser over one string
MaxPasses == 2

\* the sequences of at most n elements of S
SeqsUpTo(S, n) == UNION {[1..k -> S] : k \in 0..n}

\* the lines of the batch inputs: two headings, lines that convert, lines
\* that parse_coordinates rejects and lines on which it raises otherwise
BatchLines ==
  { <<"l", "a", "t", "\t", "l", "o", "n">>,
    <<"L", "o", "n", " ", "L", "a", "t">>,
    <<"4", DegreeSign, "5", "'", " ", "7", DegreeSign, "3", "0", "'">>,
    <<"4", ".", "5", "\t", "-", "7", ".", "0", "9">>,
    <<" ", "7", DegreeSign, "w", " ", "4", DegreeSign, "n", "\n">>,
    <<"4", " ", "-", "7">>,
    <<"4", "x">>,
    <<"4", DegreeSign, "n", " ", "7", DegreeSign, "s">>,
    <<"4", "-", "7">> }

\* the texts of an integer
IntTexts == { <<"4">>, <<"-", "7">> }

\* the texts of a decimal number
DecTexts ==
  { <<"4", ".", "5">>, <<"-", "7", ".", "0", "9">>, <<"-", "0", ".", "5">> }

\* the texts of degrees and an integer
DegMinTexts == {d \o <<DegreeSign, "5">> : d \in IntTexts}

\* the texts of one coordinate
CoordTexts ==
  IntTexts \cup DecTexts \cup DegMinTexts
  \cup { <<"4", DegreeSign>>,
         <<"4", DegreeSign, "5", "'">>,
         <<"4", DegreeSign, "-", "1", "'">>,
         <<"-", "7", DegreeSign, "5", "'">>,
         <<"4", DegreeSign, "5", "'", "6", "'", "'">> }

\* what follows a coordinate: nothing, or a direction letter
HemTexts == { <<>>, <<"N">>, <<"s">>, <<"W">>, <<" ", "e">> }

\* what separates the two coordinates of a line
SepTexts == { <<" ">>, <<",", " ">>, <<"-">> }

\* the strings given to parse_coordinates: one coordinate, or two
ConvInputs ==
  {c \o h : c \in CoordTexts, h \in HemTexts}
  \cup {c1 \o h1 \o sep \o c2 \o h2 :
          c1 \in CoordTexts, h1 \in HemTexts, sep \in SepTexts,
          c2 \in CoordTexts, h2 \in HemTexts}

\* the pieces of the raw strings given to the normaliser
Pieces ==
  { <<"w">>, <<"e">>, <<"s">>, <<"t">>, <<"e", "a", "s", "t">>,
    <<"N", "o", "r", "t", "h">>, <<"o">>, <<DegreeSign>>, <<"4">> }

NormInputs == {Concat(ps) : ps \in SeqsUpTo(Pieces, MaxPieces)}

\* ------------------------------------------------------------------------
\* State
\* ------------------------------------------------------------------------

VARIABLES
  \* process_simpl
  input,      \* the lines of the iterator input
  pos,        \* how many of them next(input) has returned
  line,       \* the local line
  lat_first,  \* the local lat_first
  output,     \* the records yielded so far
  pc,         \* where the generator stands
  \* one call of parse_coordinates, the decimal text of its result and the
  \* parse of that text
  string,     \* the argument string
  latf,       \* the argument lat_first
  stage,      \* "called", "returned", "raised", "formatted", "reparsed"
  canon,      \* the standardized string
  tokens,     \* the local tokens
  first,      \* the outcome of the first parse_coord
  result,     \* the outcome of parse_coordinates
  text,       \* the column latlon_dec of the result
  result2,    \* the outcome of parse_coordinates on text
  \* successive calls of prepare_string
  passes,     \* the raw string and the value of each pass over it
  norm_exc    \* the exception of the last pass, or "none"

batch_vars == <<input, pos, line, lat_first, output, pc>>

conv_vars == <<string, latf, stage, canon, tokens, first, result, text, result2>>

norm_vars == <<passes, norm_exc>>

vars == <<batch_vars, conv_vars, norm_vars>>

NoValue == [exc |-> "unset"]

BatchIdle ==
  /\ input = <<>> /\ pos = 0 /\ line = <<>> /\ lat_first = TRUE
  /\ output = <<>> /\ pc = "idle"

ConvIdle ==
  /\ string = <<>> /\ latf = TRUE /\ stage = "idle" /\ canon = NoValue
  /\ tokens = <<>> /\ first = NoValue /\ result = NoValue /\ text = <<>>
  /\ result2 = NoValue

NormIdle == passes = <<>> /\ norm_exc = "none"

\* ------------------------------------------------------------------------
\* process_simpl
\* ------------------------------------------------------------------------

Init ==
  /\ input \in SeqsUpTo(BatchLines, MaxLines)
  /\ pos = 0 /\ line = <<>> /\ lat_first = TRUE /\ output = <<>>
  /\ pc = "start"
  /\ ConvIdle /\ NormIdle

\* the first line is a heading when it names both lat and lon
IsHeading(l) ==
  /\ find(casefold(l), <<"l", "a", "t">>) >= 0
  /\ find(casefold(l), <<"l", "o", "n">>) >= 0

HeadingRecord(lf) ==
  [heading |-> IF lf THEN "original_latlon" ELSE "original_lotlan"]

\* the columns of the original information of a stripped line
Original(l, lf) ==
  LET parts == partition_tab(l)
      part1 == parts[1]
      part2 == parts[3]
  IN IF part1 = <<>> \/ part2 = <<>> \/ isspace(part1) \/ isspace(part2)
     THEN << <<>>, <<>>, l >>
     ELSE IF lf THEN <<part1, part2, <<>> >>
     ELSE <<part2, part1, <<>> >>

\* lines 310-314: the columns lat_dec, lon_dec and latlon_dec
DecimalColumns(lat_dec, lon_dec) ==
  << signed_coord(lat_dec), signed_coord(lon_dec),
     lat_dec \o <<" ">> \o lon_dec >>

\* the columns lat_corr, lon_corr, lat_dec, lon_dec and latlon_dec; the
\* columns lat_sx, lon_sx and latlon_sx render the same pair once more and
\* are not modelled
Converted(lat, lon) ==
  << str_coord(lat, TRUE), str_coord(lon, FALSE) >>
  \o DecimalColumns(str_coord(dec_coord(lat), TRUE),
                    str_coord(dec_coord(lon), FALSE))

\* lines 267-286: read the first line, detect the heading, yield the
\* output heading
Start ==
  /\ pc = "start"
  /\ IF input = <<>>
     THEN /\ pc' = "done"
          /\ UNCHANGED <<pos, line, lat_first, output>>
     ELSE IF IsHeading(input[1])
     THEN LET lf == find(casefold(input[1]), <<"l", "a", "t">>)
                    <= find(casefold(input[1]), <<"l", "o", "n">>)
          IN /\ lat_first' = lf
             /\ IF Len(input) = 1
                THEN /\ pc' = "done" /\ pos' = 1 /\ line' = input[1]
                     /\ UNCHANGED output
                ELSE /\ pc' = "loop" /\ pos' = 2 /\ line' = input[2]
                     /\ output' = <<HeadingRecord(lf)>>
     ELSE /\ pc' = "loop" /\ pos' = 1 /\ line' = input[1]
          /\ output' = <<HeadingRecord(lat_first)>>
          /\ UNCHANGED lat_first
  /\ UNCHANGED <<input, conv_vars, norm_vars>>

\* line = next(input), or break on StopIteration
NextLine ==
  IF pos < Len(input)
  THEN pos' = pos + 1 /\ line' = input[pos + 1] /\ pc' = "loop"
  ELSE pc' = "done" /\ UNCHANGED <<pos, line>>

\* the record of a line whose parse returned r
ConvertedRecord(l, lf, r) ==
  [original  |-> Original(l, lf),
   converted |-> Converted(r.val[1], r.val[2]),
   remark    |-> ""]

\* the record of a line whose parse raised the ValueError r
RemarkRecord(l, lf, r) ==
  [original  |-> Original(l, lf),
   converted |-> << <<>>, <<>>, <<>>, <<>>, <<>> >>,
   remark    |-> r.msg]

\* lines 289-300: the outcome of the try on the current line
Outcome == parse_coordinates(strip(line), lat_first)

\* lines 289-314, 315-318: the line parses; yield the converted record
YieldConverted ==
  /\ pc = "loop"
  /\ Outcome.exc = "none"
  /\ output' = Append(output, ConvertedRecord(strip(line), lat_first, Outcome))
  /\ NextLine
  /\ UNCHANGED <<input, lat_first, conv_vars, norm_vars>>

\* lines 289-306: parse_coordinates raises a ValueError; yield the original
\* and the error text
YieldRemark ==
  /\ pc = "loop"
  /\ Outcome.exc = "ValueError"
  /\ output' = Append(output, RemarkRecord(strip(line), lat_first, Outcome))
  /\ NextLine
  /\ UNCHANGED <<input, lat_first, conv_vars, norm_vars>>

\* lines 298-300: parse_coordinates raises what "except ValueError" does not
\* catch; the exception leaves the generator, which yields nothing more
Propagate ==
  /\ pc = "loop"
  /\ Outcome.exc \notin {"none", "ValueError"}
  /\ pc' = "aborted"
  /\ UNCHANGED <<input, pos, line, lat_first, output, conv_vars, norm_vars>>

Next == Start \/ YieldConverted \/ YieldRemark \/ Propagate

Spec == Init /\ [][Next]_vars

\* ------------------------------------------------------------------------
\* parse_coordinates, called once
\* ------------------------------------------------------------------------

ConvInit ==
  /\ string \in ConvInputs /\ latf \in BOOLEAN /\ stage = "called"
  /\ canon = NoValue /\ tokens = <<>> /\ first = NoValue /\ result = NoValue
  /\ text = <<>> /\ result2 = NoValue
  /\ BatchIdle /\ NormIdle

\* the call reaches line 245: the string is standardized and its letters are
\* zero or two direction letters
ReachesTokens(prepared) ==
  /\ prepared.exc = "none"
  /\ Len(letters_of(prepared.val)) = Len(quadrant_of(prepared.val))
  /\ Len(quadrant_of(prepared.val)) \in {0, 2}

\* the locals of the call: prepared is the outcome of prepare_string and r
\* the outcome of the call
Locals(prepared, r) ==
  /\ canon' = prepared
  /\ tokens' = IF ReachesTokens(prepared) THEN tokenize(prepared.val)
               ELSE <<>>
  /\ result' = r
  /\ stage' = IF r.exc = "none" THEN "returned" ELSE "raised"

\* lines 206-262
Convert ==
  /\ stage = "called"
  /\ Locals(prepare_string(string), parse_coordinates(string, latf))
  /\ first' = IF ReachesTokens(canon') THEN parse_coord(tokens') ELSE NoValue
  /\ UNCHANGED <<string, latf, text, result2, batch_vars, norm_vars>>

\* lines 310-314: the column latlon_dec of the returned pair
Format ==
  /\ stage = "returned"
  /\ text' = Converted(result.val[1], result.val[2])[5]
  /\ stage' = "formatted"
  /\ UNCHANGED <<string, latf, canon, tokens, first, result, result2,
                 batch_vars, norm_vars>>

\* the formatted text is given to parse_coordinates again
Reparse ==
  /\ stage = "formatted"
  /\ result2' = parse_coordinates(text, latf)
  /\ stage' = "reparsed"
  /\ UNCHANGED <<string, latf, canon, tokens, first, result, text,
                 batch_vars, norm_vars>>

ConvNext == Convert \/ Format \/ Reparse

ConvSpec == ConvInit /\ [][ConvNext]_vars

\* ------------------------------------------------------------------------
\* prepare_string, called on its own value
\* ------------------------------------------------------------------------

NormInit ==
  /\ \E s \in NormInputs : passes = <<s>>
  /\ norm_exc = "none"
  /\ BatchIdle /\ ConvIdle

\* lines 75-92, on the value of the previous pass
Normalize ==
  /\ norm_exc = "none"
  /\ Len(passes) <= MaxPasses
  /\ LET r == prepare_string(passes[Len(passes)])
     IN IF r.exc = "none"
        THEN passes' = Append(passes, r.val) /\ UNCHANGED norm_exc
        ELSE norm_exc' = r.exc /\ UNCHANGED passes
  /\ UNCHANGED <<batch_vars, conv_vars>>

NormNext == Normalize

NormSpec == NormInit /\ [][NormNext]_vars

\* ------------------------------------------------------------------------
\* Properties of process_simpl (Spec)
\* ------------------------------------------------------------------------

\* the index of the first data line of the input
FirstData == IF input # <<>> /\ IsHeading(input[1]) THEN 2 ELSE 1

IsConvertedRecord(rec) ==
  /\ rec.remark = ""
  /\ \A k \in 1..Len(rec.converted) : rec.converted[k] # <<>>

IsRemarkRecord(rec) ==
  /\ rec.remark # ""
  /\ \A k \in 1..Len(rec.converted) : rec.converted[k] = <<>>

\* C1: no line makes the generator stop with an exception, and when the
\* generator has finished, the records after the heading are one per data
\* line, in the order of the lines, each either a converted record or a
\* record with empty converted fields and the error text as its remark.
C1_EveryLineYieldsOneRecord ==
  /\ pc # "aborted"
  /\ (pc = "done" /\ Len(input) >= FirstData) =>
       /\ Len(output) = 1 + (Len(input) - FirstData + 1)
       /\ \A i \in FirstData..Len(input) :
            LET rec == output[i - FirstData + 2]
            IN /\ rec.original = Original(strip(input[i]), lat_first)
               /\ IsConvertedRecord(rec) \/ IsRemarkRecord(rec)

\* ------------------------------------------------------------------------
\* Properties of parse_coordinates (ConvSpec)
\* ------------------------------------------------------------------------

Called == stage \in {"returned", "raised", "formatted", "reparsed"}

\* the pair p in the order (lat, lon) that lat_first gives it
ByLatFirst(p) == IF latf THEN p ELSE <<p[2], p[1]>>

SameAxis(quadrant) ==
  /\ Len(quadrant) = 2
  /\ \/ quadrant[1] \in {"n", "s"} /\ quadrant[2] \in {"n", "s"}
     \/ quadrant[1] \in {"e", "w"} /\ quadrant[2] \in {"e", "w"}

\* C2: when the two direction letters of the canonical string belong to the
\* same axis and the tokens parse as a pair, parse_coordinates raises a
\* ValueError about the order and returns no pair.
C2_SameAxisRaisesValueError ==
  (/\ Called
   /\ canon.exc = "none"
   /\ Len(letters_of(canon.val)) = 2
   /\ SameAxis(quadrant_of(canon.val))
   /\ parse_pair(tokens).exc = "none")
  => result.exc = "ValueError"

\* C3: two integer literals separated by one space and nothing else parse
\* as the two PlainDecimal values of the literals, ordered by lat_first.
C3_BarePairIsTwoPlainDecimals ==
  \A a \in IntTexts, b \in IntTexts :
    (Called /\ string = a \o <<" ">> \o b) =>
      /\ result.exc = "none"
      /\ result.val = ByLatFirst(<< Float(float_of_int(IntOfText(a))),
                                    Float(float_of_int(IntOfText(b))) >>)

\* the texts of a latitude letter and of a longitude letter after a number
LatLetters == { <<"N">>, <<"s">> }

LonLetters == { <<"W">>, <<" ", "e">> }

\* the direction letter of such a text, case-folded
LetterOf(h) == CaseFoldChar(h[Len(h)])

\* C4: the inputs 'aX bY' and 'bY aX', X a latitude letter and Y a longitude
\* letter, both parse, whatever lat_first is, as lat = a signed by X and
\* lon = b signed by Y.
C4_LetteredPairIsOrderSymmetric ==
  \A a \in IntTexts, b \in IntTexts, X \in LatLetters, Y \in LonLetters :
    (/\ Called
     /\ \/ string = a \o X \o <<" ">> \o b \o Y
        \/ string = b \o Y \o <<" ">> \o a \o X)
    => /\ result.exc = "none"
       /\ result.val =
            << hemisphere_sign(LetterOf(X), Float(float_of_int(IntOfText(a)))),
               hemisphere_sign(LetterOf(Y), Float(float_of_int(IntOfText(b)))) >>

\* C5: with lat_first, the letter-free input 'a.b, c.d' parses as the
\* PlainDecimal values a.b and c.d that the input writes.
C5_DecimalPairIsAsWritten ==
  \A x \in DecTexts, y \in DecTexts :
    (Called /\ latf /\ string = x \o <<",", " ">> \o y) =>
      /\ result.exc = "none"
      /\ result.val = << Float(float_of_text(x).val), Float(float_of_text(y).val) >>

\* the rendering keeps five decimals of a degree: a re-parsed value may
\* differ from the original by 1e-6 and half a unit of the fifth decimal
RoundTripTolerance == UNIT \div 1000000 + UNIT \div 200000

Close(c, d) == abs(dec_coord(c).val - dec_coord(d).val) <= RoundTripTolerance

\* C6: the decimal text 'lat lon' of a parsed pair parses again, as a pair
\* whose two values equal the decimal values of the original pair within the
\* tolerance.
C6_DecimalTextRoundTrips ==
  stage = "reparsed" =>
    /\ result2.exc = "none"
    /\ Close(result2.val[1], result.val[1])
    /\ Close(result2.val[2], result.val[2])

NonNegativeMinute(m) ==
  IF m.type = "float" THEN m.val >= 0
  ELSE m.minutes >= 0 /\ m.seconds.val >= 0

NonNegativeFields(c) ==
  c.type = "tuple" => c.degrees >= 0 /\ NonNegativeMinute(c.minutes)

\* C8: every Sexagesimal coordinate that parse_coord or parse_coordinates
\* returns has degrees, minutes and seconds that are not negative.
C8_SexagesimalFieldsNonNegative ==
  /\ (Called /\ first.exc = "none") => NonNegativeFields(first.val)
  /\ (Called /\ result.exc = "none") =>
       NonNegativeFields(result.val[1]) /\ NonNegativeFields(result.val[2])

\* the input is 'D deg M': integer degrees, the degree sign, an integer
IsDegMin(str) == str \in DegMinTexts

\* the Sexagesimal that the claim gives the tokens (D, deg), (M, '')
DegMinSexagesimal(toks) ==
  Sexagesimal(toks[1][1] >= 0, abs(toks[1][1]),
              Float(float_of_int(toks[2][1])))

\* C9, as claimed: the input 'D deg M' parses as the coordinate
\* Sexagesimal(D >= 0, |D|, Decimal(M)) and not as an error.
C9_DegMinInputIsSexagesimal ==
  (Called /\ IsDegMin(string)) =>
    /\ result.exc = "none"
    /\ \E k \in 1..2 : result.val[k] = DegMinSexagesimal(tokens)

\* C9, amended: on the two tokens of 'D deg M' parse_coord returns
\* Sexagesimal(D >= 0, |D|, Decimal(M)) and no remaining tokens, because
\* parse_minutes accepts its single token; parse_coordinates then returns,
\* for this two-token input, the pair PlainDecimal(D), PlainDecimal(M) in
\* the order of lat_first.
C9_DegMinTokensAreSexagesimal ==
  (Called /\ IsDegMin(string)) =>
    /\ Len(tokens) = 2
    /\ first = Parsed(DegMinSexagesimal(tokens), <<>>)
    /\ result.exc = "none"
    /\ result.val = ByLatFirst(<< Float(float_of_int(tokens[1][1])),
                                  Float(float_of_int(tokens[2][1])) >>)

\* C9: the input '4 deg 5' has been parsed; parse_coord returned a
\* Sexagesimal and parse_coordinates the PlainDecimal pair.
C9_Witness ==
  /\ stage = "returned"
  /\ string = <<"4", DegreeSign, "5">>
  /\ first.val = Sexagesimal(TRUE, 4, Float(float_of_int(5)))
  /\ result.val[1].type = "float"
  /\ result.val[2].type = "float"

\* the tokens from the k-th on
Suffixes(toks) == {Drop(toks, k) : k \in 0..Len(toks)}

ReturnsOrParseError(r) == r.exc \in {"none", "ValueError"}

\* the first character of the leading marker is neither a decimal separator
\* nor the marker m of the level
NoRuleMatches(toks, m) ==
  /\ Len(toks) >= 2
  /\ \/ toks[1][2] = <<>>
     \/ toks[1][2][1] \notin {".", ",", m}

SecondsMarkerMissing(toks) ==
  /\ Len(toks) >= 2
  /\ \/ toks[1][2] = <<>>
     \/ /\ toks[1][2][1] \notin {".", ","}
        /\ SubSeq(toks[1][2], 1, 2) # <<"'", "'">>

\* C10: on every token sequence of the tokenizer, and on each of its
\* suffixes, parse_coord, parse_minutes and parse_seconds return or raise
\* ValueError; with two or more tokens and a leading marker that no rule of
\* the level matches they raise ValueError.
C10_ParsersReturnOrParseError ==
  Called =>
    \A toks \in Suffixes(tokens) :
      /\ ReturnsOrParseError(parse_coord(toks))
      /\ ReturnsOrParseError(parse_minutes(toks))
      /\ ReturnsOrParseError(parse_seconds(toks))
      /\ NoRuleMatches(toks, DegreeSign) => parse_coord(toks).exc = "ValueError"
      /\ NoRuleMatches(toks, "'") => parse_minutes(toks).exc = "ValueError"
      /\ SecondsMarkerMissing(toks) => parse_seconds(toks).exc = "ValueError"

\* ------------------------------------------------------------------------
\* Properties of prepare_string (NormSpec)
\* ------------------------------------------------------------------------

\* C7: when a first pass of prepare_string succeeds, a second pass over its
\* value succeeds and returns that value unchanged.
C7_NormalizeIsIdempotent ==
  /\ Len(passes) = 2 => norm_exc = "none"
  /\ Len(passes) >= 3 => passes[3] = passes[2]

\* The words of the substitutions whose spelling holds an o.
WordsWithO ==
  { <<"n", "o", "r", "t", "h">>, <<"s", "o", "u", "t", "h">>,
    <<"s", "e", "c", "o", "n", "d", "s">> }

\* Position i of the case-folded string f lies inside an occurrence of a word.
InsideWord(f, i) ==
  \E w \in WordsWithO : \E j \in 1..i :
    /\ i < j + Len(w)
    /\ j + Len(w) - 1 <= Len(f)
    /\ SubSeq(f, j, j + Len(w) - 1) = w

\* The string holds an o or O, and each of them lies inside one of the words.
OnlyWordOs(s) ==
  /\ Contains(s, "o") \/ Contains(s, "O")
  /\ \A i \in 1..Len(s) : casefold(s)[i] = "o" => InsideWord(casefold(s), i)

CountOf(s, c) == Cardinality({i \in 1..Len(s) : s[i] = c})

\* C11: when every o or O of the raw string lies inside north, south or
\* seconds, the first pass of prepare_string raises nothing, whether or not
\* the string holds a degree sign, and its value holds no o and no more degree
\* signs than the raw string: the words are rewritten and no o of theirs
\* becomes a degree sign.
C11_WordOsAreNotDegreeMarkers ==
  OnlyWordOs(passes[1]) =>
    /\ Len(passes) = 1 => norm_exc = "none"
    /\ Len(passes) >= 2 =>
         /\ ~Contains(passes[2], "o")
         /\ CountOf(passes[2], DegreeSign) = CountOf(passes[1], DegreeSign)

====
